---- MODULE Spec2Model ----
(***************************************************************************)
(* Directivity responses of pyroomacoustics (directivities.py): the angle  *)
(* wrap, the DirectionVector, the CardioidFamily and SpeechDirectivity     *)
(* models and the shoebox image-source angles.                             *)
(*                                                                         *)
(* Python floats are fixed-point integers: a real x is the integer         *)
(* x * Scale (three decimals).  Degrees and radians are both such numbers, *)
(* so np.radians / np.degrees are real conversions (multiplication by      *)
(* pi/180 and back).  NaN is one distinguished value that every           *)
(* operation propagates and every comparison answers False on.             *)
(***************************************************************************)
EXTENDS Integers, Sequences, FiniteSets

VARIABLES
    kind,         \* class of the model object: "CardioidFamily" | "SpeechDirectivity"
    orientation,  \* Directivity._orientation: a DirectionVector
    p,            \* CardioidFamily._p (pattern_enum.value)
    gain,         \* ._gain
    pattern_name, \* ._pattern_name
    speech_table, \* SpeechDirectivity's .centre_freqs, .pattern_angles, .speech_data
    call          \* the last call made: its name, arguments, outcome and result

vars == <<kind, orientation, p, gain, pattern_name, speech_table, call>>

(***************************************************************************)
(* Numbers                                                                 *)
(***************************************************************************)
Scale == 1000

\* np.pi, three decimals (3.142)
PI == 3142

\* np.nan
NaN == -2000000000

\* Python None (an absent argument) and a given argument
None == <<>>

Some(x) == <<x>>

IsNone(o) == Len(o) = 0

Val(o) == o[1]

\* largest length of the angle array handed to wrap_degrees
MaxAngles == 2

\* largest number of query angles of one get_response call
MaxQuery == 2

\* largest number of image sources of one source_angle_shoebox call
MaxSources == 1

isnan(x) == x = NaN

\* body with x bound to the value v, evaluated once (a local assignment x = v)
Let(v, body(_)) == body(v)

\* the array <<f(1), ..., f(n)>>
RECURSIVE Arr(_, _)
Arr(f(_), n) == IF n = 0 THEN <<>> ELSE Append(Arr(f, n - 1), f(n))

Abs(x) == IF x < 0 THEN -x ELSE x

\* a / b rounded to the nearest integer, halves away from zero (b > 0)
RoundDiv(a, b) ==
    IF a >= 0 THEN (2 * a + b) \div (2 * b) ELSE -((2 * (-a) + b) \div (2 * b))

\* the sum of f over the index set S
Sum(f, S) ==
    LET RECURSIVE Acc(_)
        Acc(T) == IF T = {} THEN 0
                  ELSE LET i == CHOOSE x \in T : TRUE IN f[i] + Acc(T \ {i})
    IN  Acc(S)

\* np.mean over the selected entries: NaN for an empty selection
Mean(f, S) == IF S = {} THEN NaN ELSE RoundDiv(Sum(f, S), Cardinality(S))

\* the product of two fixed-point numbers
Mul(a, b) == IF isnan(a) \/ isnan(b) THEN NaN ELSE RoundDiv(a * b, Scale)

\* np.radians: x * pi / 180
radians(x) == IF isnan(x) THEN NaN ELSE RoundDiv(x * PI, 180 * Scale)

\* np.degrees: x * 180 / pi
degrees_of(x) == IF isnan(x) THEN NaN ELSE RoundDiv(x * 180 * Scale, PI)

\* sin of 0..90 whole degrees, three decimals
SinTable ==
    <<0, 17, 35, 52, 70, 87, 105, 122, 139, 156, 174, 191, 208, 225, 242, 259,
      276, 292, 309, 326, 342, 358, 375, 391, 407, 423, 438, 454, 469, 485,
      500, 515, 530, 545, 559, 574, 588, 602, 616, 629, 643, 656, 669, 682,
      695, 707, 719, 731, 743, 755, 766, 777, 788, 799, 809, 819, 829, 839,
      848, 857, 866, 875, 883, 891, 899, 906, 914, 921, 927, 934, 940, 946,
      951, 956, 961, 966, 970, 974, 978, 982, 985, 988, 990, 993, 995, 996,
      998, 999, 999, 1000, 1000>>

\* sin of a whole number of degrees
SinDeg(d) ==
    LET m == d % 360
    IN  IF m <= 90 THEN SinTable[m + 1]
        ELSE IF m <= 180 THEN SinTable[180 - m + 1]
        ELSE IF m <= 270 THEN -SinTable[m - 180 + 1]
        ELSE -SinTable[360 - m + 1]

CosDeg(d) == SinDeg(d + 90)

\* the whole number of degrees nearest to a fixed-point angle in radians
WholeDegrees(x) == RoundDiv(x * 180, PI)

\* np.sin, np.cos of a fixed-point angle in radians
sin(x) == IF isnan(x) THEN NaN ELSE SinDeg(WholeDegrees(x))

cos(x) == IF isnan(x) THEN NaN ELSE CosDeg(WholeDegrees(x))

\* the whole degrees in 0..90 whose cosine is nearest to c in 0..Scale (the
\* cosine decreases: count the degrees whose midpoint to the next lies above c)
ArcCosDeg ==
    [c \in 0..Scale |->
        Cardinality({e \in 0..89 : CosDeg(e) + CosDeg(e + 1) > 2 * c})]

\* np.arccos: NaN outside [-1, 1], else the angle in [0, pi] (to one degree),
\* with arccos(-c) = pi - arccos(c)
arccos(c) ==
    IF isnan(c) \/ c > Scale \/ c < -Scale THEN NaN
    ELSE radians((IF c >= 0 THEN ArcCosDeg[c] ELSE 180 - ArcCosDeg[-c]) * Scale)

(***************************************************************************)
(* wrap_degrees                                                            *)
(***************************************************************************)
\* angle[mask] = f(angle): one masked in-place update of a numpy array
Masked(angle, mask(_), f(_)) ==
    Arr(LAMBDA i : IF mask(angle[i]) THEN f(angle[i]) ELSE angle[i], Len(angle))

\* wrap_degrees without putting the NaNs back (lines 36-37 dropped)
wrap_degrees_no_restore(angle) ==
    LET a0 == Arr(LAMBDA i : IF isnan(angle[i]) THEN 0 ELSE angle[i], Len(angle))
        a1 == Masked(a0, LAMBDA x : x < -180 * Scale, LAMBDA x : x + 360 * Scale)
        a2 == Masked(a1, LAMBDA x : x > 180 * Scale, LAMBDA x : x - 360 * Scale)
    IN  Masked(a2, LAMBDA x : x = -180 * Scale, LAMBDA x : 180 * Scale)

\* wrap_degrees(angle), angle the 1-d array np.array(angle) (a scalar comes
\* expanded to one element)
wrap_degrees(angle) ==
    Let(Arr(LAMBDA i : isnan(angle[i]), Len(angle)), LAMBDA ind_nan :
    Let(Arr(LAMBDA i : IF ind_nan[i] THEN 0 ELSE angle[i], Len(angle)), LAMBDA a0 :
    Let(Masked(a0, LAMBDA x : x < -180 * Scale, LAMBDA x : x + 360 * Scale), LAMBDA a1 :
    Let(Masked(a1, LAMBDA x : x > 180 * Scale, LAMBDA x : x - 360 * Scale), LAMBDA a2 :
    Let(Masked(a2, LAMBDA x : x = -180 * Scale, LAMBDA x : 180 * Scale), LAMBDA a3 :
    IF \E i \in DOMAIN angle : ind_nan[i]
    THEN Arr(LAMBDA i : IF ind_nan[i] THEN NaN ELSE a3[i], Len(angle))
    ELSE a3)))))

\* the angles (degrees) wrap_degrees is called with
WrapAngles ==
    {NaN} \cup {d * Scale : d \in {-541, -540, -181, -180, 0, 180, 181, 541, 720}}

SeqsUpTo(S, n) == UNION {[1..k -> S] : k \in 1..n}

NoCall == [op |-> "none"]

\* the caller is done with the last call's result and makes its next call
Return ==
    /\ call # NoCall
    /\ call' = NoCall
    /\ UNCHANGED <<kind, orientation, p, gain, pattern_name, speech_table>>

\* wrap_degrees called with a scalar or an array
Call_wrap_degrees ==
    /\ call = NoCall
    /\ \E shape \in {"scalar", "array"} :
       \E angle \in SeqsUpTo(WrapAngles, MaxAngles) :
          /\ shape = "scalar" => Len(angle) = 1
          /\ call' = [op |-> "wrap_degrees", shape |-> shape, angle |-> angle,
                      status |-> "ok", result |-> wrap_degrees(angle)]
    /\ UNCHANGED <<kind, orientation, p, gain, pattern_name, speech_table>>

\* no model object: the module-level functions are called on their own
InitFunctions ==
    /\ kind = "none"
    /\ orientation = None
    /\ p = None
    /\ gain = None
    /\ pattern_name = "none"
    /\ speech_table = None
    /\ call = NoCall

NextWrap == Call_wrap_degrees \/ Return

SpecWrap == InitFunctions /\ [][NextWrap]_vars

(***************************************************************************)
(* DirectionVector                                                         *)
(***************************************************************************)
AssertionError == [class |-> "AssertionError"]

IsDirectionVector(o) == o.class = "DirectionVector"

\* DirectionVector.__init__ with the range assertion of line 83 left out
DirectionVector_unchecked(azimuth, colatitude, degrees) ==
    Let(IF degrees = TRUE THEN radians(azimuth) ELSE azimuth, LAMBDA az :
    Let(IF degrees = TRUE /\ ~IsNone(colatitude)
        THEN Some(radians(Val(colatitude))) ELSE colatitude,
        LAMBDA col0 :
    Let(IF IsNone(col0) THEN RoundDiv(PI, 2) ELSE Val(col0), LAMBDA col :
    [class |-> "DirectionVector",
     azimuth |-> az,
     colatitude |-> col,
     unit_v |-> <<Mul(cos(az), sin(col)), Mul(sin(az), sin(col)), cos(col)>>])))

\* DirectionVector.__init__(azimuth, colatitude=None, degrees=True): the object
\* built, or the AssertionError raised by line 83
DirectionVector(azimuth, colatitude, degrees) ==
    Let(IF degrees = TRUE THEN radians(azimuth) ELSE azimuth, LAMBDA az :
    Let(IF degrees = TRUE /\ ~IsNone(colatitude)
        THEN Some(radians(Val(colatitude))) ELSE colatitude,
        LAMBDA col0 :
    Let(IF IsNone(col0) THEN RoundDiv(PI, 2) ELSE Val(col0), LAMBDA col :
    IF ~(col <= PI /\ col >= 0) THEN AssertionError
    ELSE [class |-> "DirectionVector",
          azimuth |-> az,
          colatitude |-> col,
          unit_v |-> <<Mul(cos(az), sin(col)), Mul(sin(az), sin(col)), cos(col)>>])))

\* DirectionVector.get_azimuth / get_colatitude (degrees=False)
dv_get_azimuth(o, degrees) == IF degrees THEN degrees_of(o.azimuth) ELSE o.azimuth

dv_get_colatitude(o, degrees) ==
    IF degrees THEN degrees_of(o.colatitude) ELSE o.colatitude

\* the arguments DirectionVector is constructed with: <<azimuth, colatitude, degrees>>
DirectionArgs ==
    {<<az * Scale, col, TRUE>> :
        az \in {0, 270, -180},
        col \in {None, Some(0), Some(90 * Scale), Some(180 * Scale), Some(181 * Scale)}}
    \cup
    {<<az, col, FALSE>> :
        az \in {0, PI},
        col \in {None, Some(RoundDiv(PI, 2)), Some(PI + 1), Some(-1)}}

\* the DirectionVector objects that can exist
DirectionVectors ==
    {o \in {DirectionVector(a[1], a[2], a[3]) : a \in DirectionArgs} :
        IsDirectionVector(o)}

(***************************************************************************)
(* spher2cart (pyroomacoustics.doa), as directivities.py uses it           *)
(***************************************************************************)
\* unit Cartesian coordinates of each (azimuth, colatitude): one column per angle
spher2cart(azimuth, colatitude, degrees) ==
    Let(IF degrees THEN Arr(LAMBDA i : radians(azimuth[i]), Len(azimuth)) ELSE azimuth,
        LAMBDA az :
    Let(IF IsNone(colatitude)
        THEN Arr(LAMBDA i : RoundDiv(PI, 2), Len(azimuth))
        ELSE IF degrees
        THEN Arr(LAMBDA i : radians(Val(colatitude)[i]), Len(Val(colatitude)))
        ELSE Val(colatitude),
        LAMBDA col :
    Arr(LAMBDA i : <<Mul(cos(az[i]), sin(col[i])), Mul(sin(az[i]), sin(col[i])),
                     cos(col[i])>>,
        Len(azimuth))))

\* np.matmul(u, coord): the dot product of u with each column
matmul(u, coord) ==
    Arr(LAMBDA i : Mul(u[1], coord[i][1]) + Mul(u[2], coord[i][2])
                       + Mul(u[3], coord[i][3]),
        Len(coord))

(***************************************************************************)
(* DirectivityPattern and CardioidFamily                                   *)
(***************************************************************************)
\* the Enum's member values
DirectivityPattern ==
    [FIGURE_EIGHT |-> 0, HYPERCARDIOID |-> 250, CARDIOID |-> 500,
     SUBCARDIOID |-> 750, OMNI |-> 1000]

PatternNames == DOMAIN DirectivityPattern

\* a Python float and an Enum member, as objects
PyFloat(x) == [class |-> "float", value |-> x]

Member(name) ==
    [class |-> "DirectivityPattern", name |-> name, value |-> DirectivityPattern[name]]

\* a == b: Enum defines no value equality, so a member equals only itself and
\* a float is never equal to a member
PyEq(a, b) == IF a.class = b.class THEN a = b ELSE FALSE

\* CardioidFamily.get_response: <<status, resp>>
cardioid_get_response(o, coef, g, azimuth, colatitude, magnitude, degrees) ==
    IF ~IsNone(colatitude) /\ Len(azimuth) # Len(Val(colatitude))
    THEN <<"AssertionError", <<>>>>
    ELSE IF PyEq(PyFloat(coef), Member("OMNI"))
    THEN <<"ok", Arr(LAMBDA i : Scale, Len(azimuth))>>
    ELSE Let(spher2cart(azimuth, colatitude, degrees), LAMBDA coord :
         Let(matmul(o.unit_v, coord), LAMBDA dot :
         Let(Arr(LAMBDA i : Mul(g, coef) + Mul(Scale - coef, dot[i]), Len(azimuth)),
             LAMBDA resp :
         <<"ok", IF magnitude THEN Arr(LAMBDA i : Abs(resp[i]), Len(resp)) ELSE resp>>)))

\* the gains a model is constructed with
Gains == {Scale, 2 * Scale}

\* one query direction <<azimuth, colatitude>>, in degrees
QueryDirsDeg == {<<0, 90 * Scale>>, <<180 * Scale, 90 * Scale>>, <<270 * Scale, 180 * Scale>>}

QueryDirsRad == {<<radians(q[1]), radians(q[2])>> : q \in QueryDirsDeg}

\* the query arrays <<azimuth, colatitude>> over a set of directions, the
\* colatitude given or not
QueriesOver(dirs) ==
    UNION {
        {<<Arr(LAMBDA i : qs[i][1], Len(qs)), None>>,
         <<Arr(LAMBDA i : qs[i][1], Len(qs)), Some(Arr(LAMBDA i : qs[i][2], Len(qs)))>>}
        : qs \in SeqsUpTo(dirs, MaxQuery)}

QueriesDeg == QueriesOver(QueryDirsDeg)

QueriesRad == QueriesOver(QueryDirsRad)

Queries(degrees) == IF degrees THEN QueriesDeg ELSE QueriesRad

\* a colatitude array one element longer than the azimuth array
Mismatched(q) == <<q[1], Some(Arr(LAMBDA i : 0, Len(q[1]) + 1))>>

\* CardioidFamily.get_response(azimuth, colatitude, magnitude, frequency, degrees)
Cardioid_get_response ==
    /\ kind = "CardioidFamily"
    /\ call = NoCall
    /\ \E degrees \in BOOLEAN, magnitude \in BOOLEAN, frequency \in {None, Some(1000)} :
       \E q0 \in Queries(degrees), mismatch \in BOOLEAN :
          LET q == IF mismatch THEN Mismatched(q0) ELSE q0
              r == cardioid_get_response(orientation, p, gain, q[1], q[2],
                                         magnitude, degrees)
          IN  /\ mismatch => (Len(q0[1]) = 1 /\ magnitude /\ degrees /\ IsNone(frequency))
              /\ call' = [op |-> "get_response", azimuth |-> q[1], colatitude |-> q[2],
                          magnitude |-> magnitude, frequency |-> frequency,
                          degrees |-> degrees, band |-> None,
                          status |-> r[1], result |-> r[2], warnings |-> {}]
    /\ UNCHANGED <<kind, orientation, p, gain, pattern_name, speech_table>>

(***************************************************************************)
(* SpeechDirectivity                                                       *)
(***************************************************************************)
\* data/speech_directivity.json: "centre_freqs" (Hz), "angles" (degrees),
\* "data" (dB, one row per centre frequency): a small table of the file's shape
speech_directivity_json ==
    [centre_freqs |-> <<500, 1000, 2000>>,
     angles |-> <<0, 90 * Scale, 180 * Scale>>,
     data |-> <<<<0, -2 * Scale, -4 * Scale>>,
                <<0, -4 * Scale, -10 * Scale>>,
                <<0, -6 * Scale, -16 * Scale>>>>]

\* the attributes SpeechDirectivity.__init__ loads the file into
LoadedTable ==
    [centre_freqs |-> speech_directivity_json.centre_freqs,
     pattern_angles |-> speech_directivity_json.angles,
     speech_data |-> speech_directivity_json.data]

\* self.centre_freqs, self.pattern_angles, self.speech_data, as get_response
\* reads them
centre_freqs == speech_table.centre_freqs

pattern_angles == speech_table.pattern_angles

speech_data == speech_table.speech_data

\* 10 ** (k / 10) for k = -30 .. 1, six decimals
Pow10Table ==
    <<1000, 1259, 1585, 1995, 2512, 3162, 3981, 5012, 6310, 7943, 10000, 12589,
      15849, 19953, 25119, 31623, 39811, 50119, 63096, 79433, 100000, 125893,
      158489, 199526, 251189, 316228, 398107, 501187, 630957, 794328, 1000000,
      1258925>>

Pow10At(k) == Pow10Table[k + 31]

\* np.power(10, y), y a fixed-point exponent in [-3, 0]: six decimals, linear
\* between the table's points
Pow10(y) ==
    IF isnan(y) THEN NaN
    ELSE Let(y \div 100, LAMBDA k :
         Pow10At(k) + RoundDiv((y - 100 * k) * (Pow10At(k + 1) - Pow10At(k)), 100))

\* np.log10(m), m with six decimals in [0.001, 1]: the inverse of Pow10
Log10(m) ==
    IF isnan(m) THEN NaN
    ELSE Let(Cardinality({j \in -30..0 : Pow10At(j) <= m}) - 31, LAMBDA k :
         100 * k + RoundDiv(100 * (m - Pow10At(k)), Pow10At(k + 1) - Pow10At(k)))

\* np.argmin(np.abs(frequency - centre_freqs)): the first index of the minimum
argmin_freq(frequency) ==
    CHOOSE i \in DOMAIN centre_freqs :
        \A j \in DOMAIN centre_freqs :
            \/ Abs(frequency - centre_freqs[i]) < Abs(frequency - centre_freqs[j])
            \/ (Abs(frequency - centre_freqs[i]) = Abs(frequency - centre_freqs[j])
                /\ i <= j)

\* the rows selected by the band, with its upper end included
band_rows_inclusive(band) ==
    {i \in DOMAIN centre_freqs : centre_freqs[i] >= band[1] /\ centre_freqs[i] <= band[2]}

\* np.logical_and(centre_freqs >= band[0], centre_freqs < band[1])
band_rows(band) ==
    {i \in DOMAIN centre_freqs : centre_freqs[i] >= band[1] /\ centre_freqs[i] < band[2]}

\* 10 * np.log10(np.mean(np.power(10, speech_data[freq_inds, :] / 10), 0))
band_gains(freq_inds) ==
    Arr(LAMBDA j :
            Let(Arr(LAMBDA i : Pow10(RoundDiv(speech_data[i][j], 10)), Len(centre_freqs)),
                LAMBDA power :
            Let(Mean(power, freq_inds), LAMBDA m :
            IF isnan(m) THEN NaN ELSE 10 * Log10(m))),
        Len(pattern_angles))

\* np.interp(x, xp, fp): linear between the points, clamped outside them
interp(x, xp, fp) ==
    IF isnan(x) \/ \E i \in DOMAIN fp : isnan(fp[i]) THEN NaN
    ELSE IF x <= xp[1] THEN fp[1]
    ELSE IF x >= xp[Len(xp)] THEN fp[Len(fp)]
    ELSE LET i == CHOOSE k \in 1..(Len(xp) - 1) : xp[k] <= x /\ x < xp[k + 1]
         IN  fp[i] + RoundDiv((x - xp[i]) * (fp[i + 1] - fp[i]), xp[i + 1] - xp[i])

\* a one-element result taken for a scalar, not an array
isinstance_ndarray_scalar(directivity_angle_deg) == Len(directivity_angle_deg) > 1

\* isinstance(directivity_angle_deg, (list, np.ndarray)): wrap_degrees returns
\* np.array(angle), expanded to one dimension when it is a scalar, and np.abs
\* keeps it an array
isinstance_ndarray(directivity_angle_deg) == TRUE

\* the radians conversion of lines 395-397: the azimuth alone
speech_radians(azimuth, degrees) ==
    IF degrees THEN Arr(LAMBDA i : radians(azimuth[i]), Len(azimuth)) ELSE azimuth

\* SpeechDirectivity.get_response: <<status, directivity_at_angle, warnings>>
speech_get_response(o, azimuth, colatitude, magnitude, frequency, degrees, band) ==
    Let(speech_radians(azimuth, degrees), LAMBDA az :
    Let((IF ~magnitude THEN {"magnitude"} ELSE {})
        \cup (IF IsNone(band) /\ IsNone(frequency) THEN {"frequency"} ELSE {}),
        LAMBDA warn :
    \* freq_ind is bound only when no band is given
    Let(IF IsNone(band)
        THEN Some(argmin_freq(IF IsNone(frequency) THEN 1000 ELSE Val(frequency)))
        ELSE None,
        LAMBDA freq_ind :
    Let(IF IsNone(band) THEN speech_data[Val(freq_ind)]
        ELSE band_gains(band_rows(Val(band))),
        LAMBDA gains_per_angle :
    Let(spher2cart(az, colatitude, FALSE), LAMBDA coord :
    Let(matmul(o.unit_v, coord), LAMBDA cos_theta :
    Let(Arr(LAMBDA i : arccos(cos_theta[i]), Len(cos_theta)), LAMBDA directivity_angle :
    Let(wrap_degrees(Arr(LAMBDA i : degrees_of(directivity_angle[i]),
                         Len(directivity_angle))),
        LAMBDA wrapped :
    Let(Arr(LAMBDA i : IF isnan(wrapped[i]) THEN NaN ELSE Abs(wrapped[i]), Len(wrapped)),
        LAMBDA directivity_angle_deg :
    IF ~isinstance_ndarray(directivity_angle_deg) /\ IsNone(freq_ind)
    THEN <<"UnboundLocalError", <<>>, warn>>
    ELSE
    Let(Arr(LAMBDA i :
                interp(directivity_angle_deg[i], pattern_angles,
                       IF isinstance_ndarray(directivity_angle_deg) THEN gains_per_angle
                       ELSE speech_data[Val(freq_ind)]),
            Len(directivity_angle_deg)),
        LAMBDA directivity_at_angle_db :
    <<"ok",
      Arr(LAMBDA i :
              IF isnan(directivity_at_angle_db[i]) THEN NaN
              ELSE RoundDiv(Pow10(RoundDiv(directivity_at_angle_db[i], 20)), Scale),
          Len(directivity_at_angle_db)),
      warn>>))))))))))

\* the frequency and band arguments: <<frequency, band>>
FreqBands ==
    {<<None, None>>, <<Some(500), None>>, <<Some(1200), None>>,
     <<None, Some(<<500, 1000>>)>>, <<None, Some(<<500, 2001>>)>>,
     <<Some(2000), Some(<<1000, 2000>>)>>, <<None, Some(<<100, 200>>)>>}

\* get_response dividing the band's rows of the table in place
\* (self.speech_data[freq_inds, :] /= 10) instead of a copy of them
Speech_get_response_in_place ==
    /\ kind = "SpeechDirectivity"
    /\ call = NoCall
    /\ \E degrees \in BOOLEAN, magnitude \in BOOLEAN, fb \in FreqBands :
       \E q \in Queries(degrees) :
          LET r == speech_get_response(orientation, q[1], q[2], magnitude,
                                       fb[1], degrees, fb[2])
          IN  /\ call' = [op |-> "get_response", azimuth |-> q[1], colatitude |-> q[2],
                          magnitude |-> magnitude, frequency |-> fb[1],
                          degrees |-> degrees, band |-> fb[2],
                          status |-> r[1], result |-> r[2], warnings |-> r[3]]
              /\ speech_table' =
                    IF IsNone(fb[2]) THEN speech_table
                    ELSE [speech_table EXCEPT !.speech_data =
                            [i \in DOMAIN @ |->
                                IF i \in band_rows(Val(fb[2]))
                                THEN [j \in DOMAIN @[i] |-> RoundDiv(@[i][j], 10)]
                                ELSE @[i]]]
    /\ UNCHANGED <<kind, orientation, p, gain, pattern_name>>

\* SpeechDirectivity.get_response(azimuth, colatitude, magnitude, frequency,
\* degrees, band)
Speech_get_response ==
    /\ kind = "SpeechDirectivity"
    /\ call = NoCall
    /\ \E degrees \in BOOLEAN, magnitude \in BOOLEAN, fb \in FreqBands :
       \E q \in Queries(degrees) :
          LET r == speech_get_response(orientation, q[1], q[2], magnitude,
                                       fb[1], degrees, fb[2])
          IN  call' = [op |-> "get_response", azimuth |-> q[1], colatitude |-> q[2],
                       magnitude |-> magnitude, frequency |-> fb[1],
                       degrees |-> degrees, band |-> fb[2],
                       status |-> r[1], result |-> r[2], warnings |-> r[3]]
    /\ UNCHANGED <<kind, orientation, p, gain, pattern_name, speech_table>>

(***************************************************************************)
(* Directivity: construction and set_orientation                           *)
(***************************************************************************)
\* DirectionVector(azimuth, colatitude, degrees) is constructed (or fails)
New_DirectionVector ==
    /\ call = NoCall
    /\ \E a \in DirectionArgs :
          LET o == DirectionVector(a[1], a[2], a[3])
          IN  call' = [op |-> "DirectionVector", azimuth |-> a[1],
                       colatitude |-> a[2], degrees |-> a[3],
                       status |-> IF IsDirectionVector(o) THEN "ok" ELSE o.class,
                       result |-> o]
    /\ UNCHANGED <<kind, orientation, p, gain, pattern_name, speech_table>>

\* Directivity.set_orientation(orientation) with a DirectionVector, or with
\* something else (here a failed construction's exception object)
set_orientation ==
    /\ call = NoCall
    /\ \E new \in DirectionVectors \cup {AssertionError} :
          /\ orientation' = IF IsDirectionVector(new) THEN new ELSE orientation
          /\ call' = [op |-> "set_orientation", orientation |-> new,
                      status |-> IF IsDirectionVector(new) THEN "ok"
                                 ELSE "AssertionError"]
    /\ UNCHANGED <<kind, p, gain, pattern_name, speech_table>>

\* Directivity.get_azimuth(degrees): the azimuth of the orientation held
get_azimuth ==
    /\ call = NoCall
    /\ \E degrees \in BOOLEAN :
          call' = [op |-> "get_azimuth", degrees |-> degrees, status |-> "ok",
                   result |-> dv_get_azimuth(orientation, degrees)]
    /\ UNCHANGED <<kind, orientation, p, gain, pattern_name, speech_table>>

\* Directivity.get_colatitude(degrees)
get_colatitude ==
    /\ call = NoCall
    /\ \E degrees \in BOOLEAN :
          call' = [op |-> "get_colatitude", degrees |-> degrees, status |-> "ok",
                   result |-> dv_get_colatitude(orientation, degrees)]
    /\ UNCHANGED <<kind, orientation, p, gain, pattern_name, speech_table>>

\* CardioidFamily(orientation, pattern_enum, gain) and SpeechDirectivity(orientation)
Init ==
    /\ orientation \in DirectionVectors
    /\ \/ /\ kind = "CardioidFamily"
          /\ pattern_name \in PatternNames
          /\ p = Member(pattern_name).value
          /\ gain \in Gains
          /\ speech_table = None
       \/ /\ kind = "SpeechDirectivity"
          /\ pattern_name = "running_speech"
          /\ p = 0
          /\ gain = Scale
          /\ speech_table = LoadedTable
    /\ call = NoCall

Next ==
    \/ New_DirectionVector
    \/ set_orientation
    \/ get_azimuth
    \/ get_colatitude
    \/ Cardioid_get_response
    \/ Speech_get_response
    \/ Return

Spec == Init /\ [][Next]_vars

(***************************************************************************)
(* set_orientation while a get_response runs on the same model             *)
(*                                                                         *)
(* The running get_response is the call in progress: it loads              *)
(* self._orientation once (line 224, line 424) and computes from the       *)
(* object it loaded.  Another thread's set_orientation may run before or   *)
(* after that load.  held lists the orientations the model held during the *)
(* call, the first being the one at its start.                             *)
(***************************************************************************)
\* largest number of set_orientation calls that run during one get_response
MaxWrites == 2

\* the orientations the other thread sets: azimuths in degrees, horizontal
ConcurrentOrientations ==
    {DirectionVector(az * Scale, None, TRUE) : az \in {0, 270, -180}}

\* the queries of the running call: one direction each, its colatitude given
ConcurrentQueries == {q \in QueriesDeg : Len(q[1]) = 1 /\ ~IsNone(q[2])}

\* the whole get_response of the model on the orientation object o, with the
\* arguments of the call c: <<status, result>>
ResponseTo(o, c) ==
    IF kind = "CardioidFamily"
    THEN cardioid_get_response(o, p, gain, c.azimuth, c.colatitude, c.magnitude,
                               c.degrees)
    ELSE Let(speech_get_response(o, c.azimuth, c.colatitude, c.magnitude,
                                 c.frequency, c.degrees, c.band),
             LAMBDA r : <<r[1], r[2]>>)

Running == call.op = "get_response" /\ call.status = "running"

\* get_response is entered: nothing of the orientation is read yet
Begin_get_response ==
    /\ call = NoCall
    /\ \E q \in ConcurrentQueries :
          call' = [op |-> "get_response", azimuth |-> q[1], colatitude |-> q[2],
                   magnitude |-> TRUE, frequency |-> Some(1000),
                   degrees |-> TRUE, band |-> None,
                   status |-> "running", result |-> <<>>,
                   pc |-> "load_orientation", held |-> <<orientation>>, o |-> None]
    /\ UNCHANGED <<kind, orientation, p, gain, pattern_name, speech_table>>

\* self._orientation is loaded: the reference to the DirectionVector held now
Load_orientation ==
    /\ Running
    /\ call.pc = "load_orientation"
    /\ call' = [call EXCEPT !.o = Some(orientation), !.pc = "unit_vector"]
    /\ UNCHANGED <<kind, orientation, p, gain, pattern_name, speech_table>>

\* .unit_vector of the loaded object is read and the response computed from it
Finish_get_response ==
    /\ Running
    /\ call.pc = "unit_vector"
    /\ LET r == ResponseTo(Val(call.o), call)
       IN  call' = [call EXCEPT !.status = r[1], !.result = r[2], !.pc = "done"]
    /\ UNCHANGED <<kind, orientation, p, gain, pattern_name, speech_table>>

\* set_orientation copying the new angles into the vector held and leaving its
\* unit vector as it was
Concurrent_set_orientation_angles_only ==
    /\ Running
    /\ Len(call.held) <= MaxWrites
    /\ \E new \in ConcurrentOrientations :
          /\ orientation' = [orientation EXCEPT !.azimuth = new.azimuth,
                                                !.colatitude = new.colatitude]
          /\ call' = [call EXCEPT !.held = Append(@, orientation')]
    /\ UNCHANGED <<kind, p, gain, pattern_name, speech_table>>

\* another thread's set_orientation(new) during the running call: line 138,
\* one assignment of the reference
Concurrent_set_orientation ==
    /\ Running
    /\ Len(call.held) <= MaxWrites
    /\ \E new \in ConcurrentOrientations :
          /\ orientation' = new
          /\ call' = [call EXCEPT !.held = Append(@, new)]
    /\ UNCHANGED <<kind, p, gain, pattern_name, speech_table>>

NextConcurrent ==
    \/ Begin_get_response
    \/ Load_orientation
    \/ Finish_get_response
    \/ Concurrent_set_orientation
    \/ Return

SpecConcurrent == Init /\ [][NextConcurrent]_vars

(***************************************************************************)
(* source_angle_shoebox                                                    *)
(*                                                                         *)
(* A coordinate is a sign and a magnitude, so that a float zero keeps its  *)
(* sign (np.arctan2 tells -0.0 from 0.0); an integer array has one zero.   *)
(***************************************************************************)
Num(neg, mag) == [neg |-> neg, mag |-> mag]

Signed(x) == IF x.neg THEN -x.mag ELSE x.mag

\* a - b of two finite numbers: an exact zero difference is +0
Sub(a, b) ==
    Let(Signed(a) - Signed(b), LAMBDA d : IF d < 0 THEN Num(TRUE, -d) ELSE Num(FALSE, d))

\* x * s, s = 1 or -1: a float zero takes the product's sign, an int zero has none
MulSign(x, s, dtype) ==
    IF x.mag = 0 /\ dtype = "int" THEN Num(FALSE, 0)
    ELSE Num(IF s < 0 THEN ~x.neg ELSE x.neg, x.mag)

\* the integer square root (rounded down) of n >= 0
RECURSIVE SqrtBetween(_, _, _)
SqrtBetween(n, lo, hi) ==
    IF lo >= hi THEN lo
    ELSE Let((lo + hi + 1) \div 2, LAMBDA mid :
         IF mid * mid <= n THEN SqrtBetween(n, mid, hi) ELSE SqrtBetween(n, lo, mid - 1))

\* np.linalg.norm of one column (fixed-point in, fixed-point out)
norm(v) ==
    Let(Sum([i \in DOMAIN v |-> v[i].mag * v[i].mag], DOMAIN v), LAMBDA sq :
    SqrtBetween(sq, 0, 4 * Scale))

\* (-1) ** n for a count n >= 0
MinusOneToThe(n) == IF n % 2 = 0 THEN 1 ELSE -1

\* np.arctan2(y, x): the angle of (x, y) in [-pi, pi], the sign that of y (of
\* a zero y too)
arctan2(y, x) ==
    Let(norm(<<x, y>>), LAMBDA r :
    Let(IF r = 0 THEN (IF x.neg THEN PI ELSE 0)
        ELSE arccos(RoundDiv(Signed(x) * Scale, r)),
        LAMBDA a :
    IF y.neg THEN -a ELSE a))

\* np.arcsin(v) = pi/2 - arccos(v)
arcsin(v) == IF isnan(v) THEN NaN ELSE RoundDiv(PI, 2) - arccos(v)

\* the exponent of (12) without the "+ 1": (-1) ** wall_flips
flip_power_no_plus_one(flips) == MinusOneToThe(flips)

\* np.power(-1, wall_flips + 1), one entry
flip_power(flips) == MinusOneToThe(flips + 1)

\* source_angle_shoebox(image_source_loc, wall_flips, mic_loc): image_source_loc
\* and wall_flips one column per source, dtype the arrays' element type:
\* <<status, azimuth, colatitude>>
source_angle_shoebox(image_source_loc, wall_flips, mic_loc, dtype) ==
    Let(Len(image_source_loc[1]), LAMBDA dim :
    Let(Len(image_source_loc), LAMBDA n_sources :
    IF Len(wall_flips[1]) # dim \/ Len(mic_loc) # dim
    THEN <<"AssertionError", <<>>, <<>>>>
    ELSE
    Let(Arr(LAMBDA k : Arr(LAMBDA i : Sub(image_source_loc[k][i], mic_loc[i]), dim),
            n_sources),
        LAMBDA p_vector_array :
    Let(Arr(LAMBDA k : norm(p_vector_array[k]), n_sources), LAMBDA d_array :
    Let(Arr(LAMBDA k : Arr(LAMBDA i : MulSign(p_vector_array[k][i],
                                              flip_power(wall_flips[k][i]), dtype),
                           dim),
            n_sources),
        LAMBDA p_dash_array :
    <<"ok",
      Arr(LAMBDA k : arctan2(p_dash_array[k][2], p_dash_array[k][1]), n_sources),
      IF dim = 2 THEN Arr(LAMBDA k : RoundDiv(PI, 2), n_sources)
      ELSE Arr(LAMBDA k :
                   IF d_array[k] = 0 THEN NaN
                   ELSE RoundDiv(PI, 2)
                        - arcsin(RoundDiv(Signed(p_dash_array[k][3]) * Scale, d_array[k])),
               n_sources)>>)))))

\* the microphone, the image sources around it and the flip counts, by dimension
MicLoc(dim) == Arr(LAMBDA i : Num(FALSE, Scale), dim)

SourceLocs(dim) ==
    IF dim = 2
    THEN {<<Num(FALSE, x * Scale), Num(FALSE, y * Scale)>> : x \in 0..2, y \in 1..2}
    ELSE {<<Num(FALSE, x * Scale), Num(FALSE, y * Scale), Num(FALSE, z * Scale)>> :
             x \in 0..2, y \in 1..2, z \in 0..1}

WallFlips(dim) == [1..dim -> 0..1]

\* source_angle_shoebox called in 2-D or 3-D, with integer or float arrays, and
\* once with a microphone of the wrong dimension
Call_source_angle_shoebox ==
    /\ call = NoCall
    /\ \E dim \in 2..3, dtype \in {"int", "float"}, mic_dim \in 2..3 :
       \E locs \in SeqsUpTo(SourceLocs(dim), MaxSources) :
       \E flips \in [1..Len(locs) -> WallFlips(dim)] :
          LET r == source_angle_shoebox(locs, flips, MicLoc(mic_dim), dtype)
          IN  /\ mic_dim # dim =>
                    (dtype = "int" /\ Len(locs) = 1 /\ \A i \in 1..dim : flips[1][i] = 0)
              /\ call' = [op |-> "source_angle_shoebox", image_source_loc |-> locs,
                          wall_flips |-> flips, mic_loc |-> MicLoc(mic_dim),
                          dtype |-> dtype, status |-> r[1],
                          azimuth |-> r[2], colatitude |-> r[3]]
    /\ UNCHANGED <<kind, orientation, p, gain, pattern_name, speech_table>>

NextShoebox == Call_source_angle_shoebox \/ Return

SpecShoebox == InitFunctions /\ [][NextShoebox]_vars

(***************************************************************************)
(* Claims about wrap_degrees                                               *)
(***************************************************************************)
WrapCall == call.op = "wrap_degrees"

\* C1: every finite input angle, whatever its size, is mapped into (-180, 180]
C1_WrapInRange ==
    WrapCall =>
        \A i \in DOMAIN call.angle :
            ~isnan(call.angle[i]) =>
                /\ call.result[i] > -180 * Scale
                /\ call.result[i] <= 180 * Scale

\* C2: wrap_degrees has period 360: wrap(x) = wrap(x + 360 k) for integer k
C2_WrapPeriodic ==
    WrapCall =>
        \A i \in DOMAIN call.angle : \A k \in -2..2 :
            ~isnan(call.angle[i]) =>
                call.result[i] = wrap_degrees(<<call.angle[i] + 360 * k * Scale>>)[1]

\* C7: exactly the NaN positions of the input are NaN in the output, and a
\* finite position holds the value it gets when wrapped on its own
C7_WrapKeepsNaN ==
    WrapCall =>
        /\ DOMAIN call.result = DOMAIN call.angle
        /\ \A i \in DOMAIN call.angle :
              /\ isnan(call.result[i]) <=> isnan(call.angle[i])
              /\ ~isnan(call.angle[i]) =>
                    call.result[i] = wrap_degrees(<<call.angle[i]>>)[1]

C7_Witness ==
    /\ WrapCall
    /\ \E i, j \in DOMAIN call.angle :
          /\ isnan(call.angle[i]) /\ isnan(call.result[i])
          /\ ~isnan(call.angle[j]) /\ call.angle[j] # 0
          /\ call.result[j] = call.angle[j] - 360 * Scale

(***************************************************************************)
(* Claims about CardioidFamily                                             *)
(***************************************************************************)
CardioidCall == kind = "CardioidFamily" /\ call.op = "get_response" /\ call.status = "ok"

\* C3: an OMNI model answers exactly 1 at every query angle, for every
\* orientation and every gain
C3_OmniIsOne ==
    (CardioidCall /\ pattern_name = "OMNI") =>
        \A i \in DOMAIN call.result : call.result[i] = Scale

\* C4: queried at its own orientation, a model of any pattern answers its gain
C4_GainAtOrientation ==
    CardioidCall =>
        \A i \in DOMAIN call.result :
            spher2cart(call.azimuth, call.colatitude, call.degrees)[i] = orientation.unit_v
                => call.result[i] = gain

(***************************************************************************)
(* Claims about source_angle_shoebox                                       *)
(***************************************************************************)
ShoeboxCall == call.op = "source_angle_shoebox" /\ call.status = "ok"

\* source k lies straight in front of the microphone along +x and has no flips
InFront(k) ==
    /\ \A i \in DOMAIN call.mic_loc :
          /\ call.wall_flips[k][i] = 0
          /\ i > 1 => Signed(call.image_source_loc[k][i]) = Signed(call.mic_loc[i])
    /\ Signed(call.image_source_loc[k][1]) > Signed(call.mic_loc[1])

\* C5 (as stated): for a source straight in front along +x with no wall flips
\* the azimuth is 0 and, in 3-D, the colatitude is pi/2
C5_FrontAzimuthZero ==
    ShoeboxCall =>
        \A k \in DOMAIN call.image_source_loc :
            InFront(k) =>
                /\ call.azimuth[k] = 0
                /\ Len(call.mic_loc) = 3 => call.colatitude[k] = RoundDiv(PI, 2)

\* C5 (amended): for such a source the azimuth is pi in magnitude (the
\* direction from the source back to the microphone) and, in 3-D, the
\* colatitude is pi/2
C5_FrontAzimuthPi ==
    ShoeboxCall =>
        \A k \in DOMAIN call.image_source_loc :
            InFront(k) =>
                /\ Abs(call.azimuth[k]) = PI
                /\ Len(call.mic_loc) = 3 => call.colatitude[k] = RoundDiv(PI, 2)

C5_Witness ==
    /\ ShoeboxCall
    /\ Len(call.mic_loc) = 3
    /\ \E k \in DOMAIN call.image_source_loc :
          InFront(k) /\ call.azimuth[k] = -PI /\ call.colatitude[k] = RoundDiv(PI, 2)

(***************************************************************************)
(* Claims about SpeechDirectivity                                          *)
(***************************************************************************)
SpeechCall == kind = "SpeechDirectivity" /\ call.op = "get_response"

\* the response to the last call's query with other flags
SpeechResponse(azimuth, colatitude, magnitude, frequency, degrees, band) ==
    speech_get_response(orientation, azimuth, colatitude, magnitude, frequency,
                        degrees, band)[2]

ToRadians(a) == Arr(LAMBDA i : radians(a[i]), Len(a))

\* C6: with degrees=True both azimuth and colatitude are converted, so a query
\* in degrees answers as the same direction in radians with degrees=False
C6_DegreesAsRadians ==
    (SpeechCall /\ call.status = "ok" /\ call.degrees) =>
        call.result =
            SpeechResponse(ToRadians(call.azimuth),
                           IF IsNone(call.colatitude) THEN None
                           ELSE Some(ToRadians(Val(call.colatitude))),
                           call.magnitude, call.frequency, FALSE, call.band)

InBand(band) == {f \in {centre_freqs[i] : i \in DOMAIN centre_freqs} :
                    band[1] <= f /\ f < band[2]}

\* C9: a band [low, high) holding exactly one centre frequency f answers, at
\* every query angle, as the single-frequency lookup with frequency=f
C9_OneFrequencyBand ==
    (SpeechCall /\ ~IsNone(call.band)) =>
        \A f \in InBand(Val(call.band)) :
            InBand(Val(call.band)) = {f} =>
                /\ call.status = "ok"
                /\ call.result = SpeechResponse(call.azimuth, call.colatitude,
                                                call.magnitude, Some(f), call.degrees, None)

C9_Witness ==
    /\ SpeechCall
    /\ ~IsNone(call.band)
    /\ InBand(Val(call.band)) = {500}
    /\ call.status = "ok"
    /\ \E i \in DOMAIN call.result : call.result[i] # Scale /\ ~isnan(call.result[i])

(***************************************************************************)
(* Claims about DirectionVector                                            *)
(***************************************************************************)
\* the colatitude of a constructor call, in radians, pi/2 when omitted
ConvertedColatitude ==
    IF IsNone(call.colatitude) THEN RoundDiv(PI, 2)
    ELSE IF call.degrees THEN radians(Val(call.colatitude))
    ELSE Val(call.colatitude)

InRange(col) == 0 <= col /\ col <= PI

\* C10: construction fails exactly when the converted colatitude is outside
\* [0, pi] (pi/2 when omitted); every DirectionVector built, and the orientation
\* a model holds after any constructions and set_orientation calls, has its
\* colatitude in [0, pi]
C10_ColatitudeInRange ==
    /\ kind # "none" => (IsDirectionVector(orientation) /\ InRange(orientation.colatitude))
    /\ call.op = "DirectionVector" =>
          /\ (call.status = "AssertionError") <=> ~InRange(ConvertedColatitude)
          /\ (call.status = "ok") <=> InRange(ConvertedColatitude)
          /\ call.status = "ok" =>
                (IsDirectionVector(call.result)
                 /\ call.result.colatitude = ConvertedColatitude)
          /\ call.status # "ok" => ~IsDirectionVector(call.result)
    /\ (call.op = "set_orientation" /\ call.status = "ok") =>
          (orientation = call.orientation /\ InRange(call.orientation.colatitude))

C10_Witness ==
    /\ call.op = "DirectionVector"
    /\ call.degrees
    /\ call.colatitude = Some(181 * Scale)
    /\ call.status = "AssertionError"
    /\ InRange(orientation.colatitude)

(***************************************************************************)
(* Claims about the model's state                                          *)
(***************************************************************************)
\* one step of the model: the coefficient, the gain, the pattern name and the
\* table stay; the orientation changes only in a set_orientation that
\* succeeds, to the vector handed in; get_azimuth and get_colatitude answer
\* from the orientation held before the call
C11_Step ==
    /\ kind' = kind
    /\ p' = p
    /\ gain' = gain
    /\ pattern_name' = pattern_name
    /\ speech_table' = speech_table
    /\ orientation' # orientation =>
          (call'.op = "set_orientation" /\ call'.status = "ok")
    /\ call'.op = "set_orientation" =>
          orientation' = IF call'.status = "ok" THEN call'.orientation ELSE orientation
    /\ call'.op = "get_response" => orientation' = orientation
    /\ call'.op = "get_azimuth" =>
          /\ orientation' = orientation
          /\ call'.result = IF call'.degrees THEN degrees_of(orientation.azimuth)
                            ELSE orientation.azimuth
    /\ call'.op = "get_colatitude" =>
          /\ orientation' = orientation
          /\ call'.result = IF call'.degrees THEN degrees_of(orientation.colatitude)
                            ELSE orientation.colatitude

\* C11: a model's state changes only through set_orientation: get_response
\* (warnings or not) leaves orientation, coefficient, gain and table as they
\* are, set_orientation changes the orientation only, and get_azimuth and
\* get_colatitude report the orientation most recently set
C11_OnlySetOrientation == [][C11_Step]_vars

C11_Witness ==
    /\ kind = "SpeechDirectivity"
    /\ call.op = "get_response"
    /\ call.status = "ok"
    /\ call.warnings = {"magnitude", "frequency"}
    /\ speech_table = LoadedTable
    /\ gain = Scale

(***************************************************************************)
(* Claims about re-orientation during a get_response                       *)
(***************************************************************************)
\* azimuth, colatitude and unit vector of o are those of one DirectionVector
OneVector(o) ==
    /\ IsDirectionVector(o)
    /\ o = DirectionVector(o.azimuth, Some(o.colatitude), FALSE)

\* C12: in every state of every interleaving of set_orientation with a running
\* get_response, the orientation held is one whole DirectionVector, and a
\* finished get_response has computed its whole result from one of the
\* orientations the model held during the call
C12_AtomicReorientation ==
    /\ OneVector(orientation)
    /\ call.op = "get_response" =>
          /\ \A k \in DOMAIN call.held : OneVector(call.held[k])
          /\ ~IsNone(call.o) => \E k \in DOMAIN call.held : Val(call.o) = call.held[k]
          /\ call.pc = "done" =>
                \E k \in DOMAIN call.held :
                    <<call.status, call.result>> = ResponseTo(call.held[k], call)

\* a call that two set_orientation calls ran into, answered from the second
\* of the three orientations held and from neither of the others
C12_Witness ==
    /\ call.op = "get_response"
    /\ call.pc = "done"
    /\ call.status = "ok"
    /\ Len(call.held) = 3
    /\ call.result = ResponseTo(call.held[2], call)[2]
    /\ call.result # ResponseTo(call.held[1], call)[2]
    /\ call.result # ResponseTo(call.held[3], call)[2]
    /\ orientation = call.held[3]

(***************************************************************************)
(* Claims about the stored azimuth                                         *)
(***************************************************************************)
\* az lies in (-pi, pi]
AzimuthInRange(az) == -PI < az /\ az <= PI

\* C13: every DirectionVector built stores an azimuth in (-pi, pi], get_azimuth()
\* (radians) returns a value in (-pi, pi], and so does the orientation a model
\* holds after any set_orientation calls
C13_AzimuthInRange ==
    /\ kind # "none" => AzimuthInRange(dv_get_azimuth(orientation, FALSE))
    /\ (call.op = "DirectionVector" /\ call.status = "ok") =>
          AzimuthInRange(dv_get_azimuth(call.result, FALSE))
    /\ (call.op = "set_orientation" /\ call.status = "ok") =>
          AzimuthInRange(dv_get_azimuth(orientation, FALSE))
    /\ (call.op = "get_azimuth" /\ ~call.degrees) => AzimuthInRange(call.result)

====
